---- MODULE Spec2Model ----
(***************************************************************************)
(* The authenticated user-directory templates (actix HTTP service and      *)
(* tonic interceptor): credential hashing, the JWT codec, the              *)
(* authorization gate of both transports, the dynamic UPDATE builder and   *)
(* the user directory operations over the users table.                     *)
(*                                                                         *)
(* Strings are sequences of values.  Header text is a sequence of          *)
(* character codes; e-mails, usernames, names and passwords are small      *)
(* naturals standing for distinct strings; Option<T> is a sequence of      *)
(* length 0 (None) or 1 (Some).                                            *)
(***************************************************************************)
EXTENDS Integers, Sequences, FiniteSets, TLC

VARIABLES
    users,      \* rows of the users table
    nextId,     \* the next identifier the store generates for an inserted row
    now,        \* the clock, epoch seconds (Utc::now(), NOW())
    held,       \* the token a client holds (at most one), with how it was issued
    creates,    \* in-flight UserService::create_user calls, one per worker
    resp,       \* the response of the last completed directory request
    dec,        \* the last decode_jwt_token call and its result
    gate,       \* the last request seen by an authorization gate and its outcome
    patchIn,    \* the (user_id, UpdateUser) the UPDATE builder is applied to
    stmt,       \* the statement the UPDATE builder produced for patchIn
    settings,   \* settings.jwt, loaded once at startup
    listing,    \* the last list request and how get_users answered it
    hashing     \* the last verify_password call, the login made on it, their results

vars == <<users, nextId, now, held, creates, resp, dec, gate, patchIn, stmt,
          settings, listing, hashing>>

(***************************************************************************)
(* Bounds of the model.                                                    *)
(***************************************************************************)
MaxUsers == 2       \* identifiers the store hands out: 1..MaxUsers
MaxTime == 1        \* the service clock runs over the instants 0..MaxTime
MaxWorkers == 2     \* concurrent create_user calls
MaxHours == 1       \* the codec is exercised with ttl 1..MaxHours hours
MaxLate == 1        \* the codec clock reaches MaxLate seconds past a boundary
MaxPage == 2        \* list requests ask for the pages 0..MaxPage and two large ones
MaxLimit == 2       \* list requests ask for the limits 0..MaxLimit and the largest

(***************************************************************************)
(* Option, Result                                                          *)
(***************************************************************************)
None == <<>>
Some(v) == <<v>>
IsSome(o) == Len(o) = 1
Unwrap(o) == o[1]
Opt(S) == {None} \cup {Some(v) : v \in S}

NoClaims == [sub |-> 0, email |-> 0, exp |-> 0, iat |-> 0]
Ok(c) == [ok |-> TRUE, err |-> "", claims |-> c]
Err(e) == [ok |-> FALSE, err |-> e, claims |-> NoClaims]

(***************************************************************************)
(* settings.jwt                                                            *)
(***************************************************************************)
JwtSecret == 1
AccessTokenExpiry == 3600
RefreshTokenExpiry == 86400
Secrets == {JwtSecret, JwtSecret + 1}
\* the defaults of Settings::new; the secret is the same in every run
DefaultSettings ==
    [access_token_expiry |-> AccessTokenExpiry, refresh_token_expiry |-> RefreshTokenExpiry]

(***************************************************************************)
(* utils/jwt.rs: the token codec.  A compact JWT is its claims payload     *)
(* <<sub, email, exp, iat>> followed by the HS256 signature, an ideal MAC  *)
(* of the payload under the secret.                                        *)
(***************************************************************************)
SecondsPerHour == 3600
Leeway == 60

Sign(payload, secret) == <<secret>> \o payload

EncodeClaims(c) == <<c.sub, c.email, c.exp, c.iat>>

BadExpiryToken(user_id, email, secret, expiry_hours, t) ==
    LET payload == EncodeClaims([sub |-> user_id, email |-> email,
                                 exp |-> t + expiry_hours, iat |-> t])
    IN  [payload |-> payload, sig |-> Sign(payload, secret)]

\* create_jwt_token at clock reading t
create_jwt_token(user_id, email, secret, expiry_hours, t) ==
    LET expires_at == t + expiry_hours * SecondsPerHour
        claims == [sub |-> user_id, email |-> email, exp |-> expires_at, iat |-> t]
        payload == EncodeClaims(claims)
    IN  [payload |-> payload, sig |-> Sign(payload, secret)]

\* A token string: junk characters followed by an optional compact JWT.
TokenStr(junk, jwt) == [junk |-> junk, jwt |-> jwt]
JustToken(tok) == TokenStr(<<>>, Some(tok))

\* jsonwebtoken::decode with Validation::default(): structure, signature,
\* then exp against the clock reading t with the default leeway.
Validate(tokenStr, secret, t) ==
    IF tokenStr.junk # <<>> \/ ~IsSome(tokenStr.jwt) THEN Err("JwtError")
    ELSE LET tok == Unwrap(tokenStr.jwt)
             p == tok.payload
         IN  IF tok.sig # Sign(p, secret) THEN Err("JwtError")
             ELSE IF p[3] < t - Leeway THEN Err("JwtError")
             ELSE Ok([sub |-> p[1], email |-> p[2], exp |-> p[3], iat |-> p[4]])

decode_jwt_token(tokenStr, secret, t) == Validate(tokenStr, secret, t)

(***************************************************************************)
(* The Authorization header.  Its value is text (character codes)          *)
(* followed by an optional compact JWT; absent headers have present =      *)
(* FALSE.  A compact JWT holds no space, so the value starts with          *)
(* "Bearer " exactly when its text does.                                   *)
(***************************************************************************)
Bearer == <<66, 101, 97, 114, 101, 114, 32>>        \* "Bearer "
LowerBearer == <<98, 101, 97, 114, 101, 114, 32>>   \* "bearer "
Basic == <<66, 97, 115, 105, 99, 32>>               \* "Basic "

NoHeader == [present |-> FALSE, text |-> <<>>, jwt |-> None]
Header(text, jwt) == [present |-> TRUE, text |-> text, jwt |-> jwt]

\* HeaderValue::to_str: every byte is a visible ASCII character or a tab
ToStrOk(h) == \A i \in 1..Len(h.text) : h.text[i] = 9 \/ h.text[i] \in 32..126

StartsWith(text, prefix) ==
    Len(text) >= Len(prefix) /\ SubSeq(text, 1, Len(prefix)) = prefix

\* &auth_str[7..]
StripPrefix(h) == TokenStr(SubSeq(h.text, Len(Bearer) + 1, Len(h.text)), h.jwt)

Forward(c) == [forwarded |-> TRUE, status |-> 0, msg |-> "", bound |-> Some(c)]
ForwardBare == [forwarded |-> TRUE, status |-> 0, msg |-> "", bound |-> None]
Reject(m) == [forwarded |-> FALSE, status |-> 401, msg |-> m, bound |-> None]

\* middleware/auth.rs: AuthMiddlewareMiddleware::call at clock reading t
AuthMiddleware(h, t) ==
    IF h.present /\ ToStrOk(h) /\ StartsWith(h.text, Bearer)
    THEN LET r == decode_jwt_token(StripPrefix(h), JwtSecret, t)
         IN  IF r.ok THEN Forward(r.claims) ELSE Reject("Invalid token")
    ELSE Reject("Missing or invalid authorization header")

\* interceptors/mod.rs: auth_interceptor; token_str is computed and dropped
auth_interceptor(h) ==
    IF ~h.present THEN Reject("No authorization token provided")
    ELSE IF ~ToStrOk(h) THEN Reject("Invalid authorization token")
    ELSE LET token_str == IF StartsWith(h.text, Bearer)
                          THEN StripPrefix(h)
                          ELSE TokenStr(h.text, h.jwt)
         IN  ForwardBare

(***************************************************************************)
(* UserService::update_user, the statement builder.  The query is the      *)
(* sequence of its SET clauses after "updated_at = NOW()", each a column   *)
(* and the number of its placeholder, and the placeholder of the WHERE     *)
(* clause; params is the list of bound values in binding order.            *)
(***************************************************************************)
Text(v) == <<"text", v>>
Bool(b) == <<"bool", b>>
Uuid(i) == <<"uuid", i>>

NoPatch == [email |-> None, username |-> None, full_name |-> None, is_active |-> None]

PushClause(s, col, val) ==
    [query |-> Append(s.query, [col |-> col, ph |-> s.bind_count]),
     bindings |-> Append(s.bindings, val),
     bind_count |-> s.bind_count + 1]

StaleCounterBuild(user_id, u) ==
    LET s0 == [query |-> <<>>, bindings |-> <<>>, bind_count |-> 1]
        s1 == IF IsSome(u.email) THEN PushClause(s0, "email", Text(Unwrap(u.email))) ELSE s0
        s2 == IF IsSome(u.username)
              THEN [PushClause(s1, "username", Text(Unwrap(u.username)))
                       EXCEPT !.bind_count = s1.bind_count]
              ELSE s1
        s3 == IF IsSome(u.full_name) THEN PushClause(s2, "full_name", Text(Unwrap(u.full_name))) ELSE s2
        s4 == IF IsSome(u.is_active) THEN PushClause(s3, "is_active", Bool(Unwrap(u.is_active))) ELSE s3
    IN  [set |-> s4.query, where |-> s4.bind_count, params |-> Append(s4.bindings, Uuid(user_id))]

WrongColumnBuild(user_id, u) ==
    LET s0 == [query |-> <<>>, bindings |-> <<>>, bind_count |-> 1]
        s1 == IF IsSome(u.email) THEN PushClause(s0, "email", Text(Unwrap(u.email))) ELSE s0
        s2 == IF IsSome(u.username) THEN PushClause(s1, "username", Text(Unwrap(u.username))) ELSE s1
        s3 == IF IsSome(u.full_name) THEN PushClause(s2, "username", Text(Unwrap(u.full_name))) ELSE s2
        s4 == IF IsSome(u.is_active) THEN PushClause(s3, "is_active", Bool(Unwrap(u.is_active))) ELSE s3
    IN  [set |-> s4.query, where |-> s4.bind_count, params |-> Append(s4.bindings, Uuid(user_id))]

BuildUpdate(user_id, u) ==
    LET s0 == [query |-> <<>>, bindings |-> <<>>, bind_count |-> 1]
        s1 == IF IsSome(u.email) THEN PushClause(s0, "email", Text(Unwrap(u.email))) ELSE s0
        s2 == IF IsSome(u.username) THEN PushClause(s1, "username", Text(Unwrap(u.username))) ELSE s1
        s3 == IF IsSome(u.full_name) THEN PushClause(s2, "full_name", Text(Unwrap(u.full_name))) ELSE s2
        s4 == IF IsSome(u.is_active) THEN PushClause(s3, "is_active", Bool(Unwrap(u.is_active))) ELSE s3
    IN  [set |-> s4.query, where |-> s4.bind_count, params |-> Append(s4.bindings, Uuid(user_id))]

(***************************************************************************)
(* Input domains.  0 stands for a string the validator rejects (an e-mail  *)
(* of the wrong format, a username shorter than 3, a password shorter      *)
(* than 8).                                                                *)
(***************************************************************************)
Ids == 1..MaxUsers
Emails == 1..2
Usernames == 1..2
Passwords == 1..2
FullNames == {1}

\* models/user.rs: #[validate(...)] of CreateUser, UpdateUser, LoginRequest
ValidEmail(e) == e # 0
ValidUsername(u) == u # 0
ValidPassword(p) == p # 0
ValidCreate(in) ==
    ValidEmail(in.email) /\ ValidUsername(in.username) /\ ValidPassword(in.password)
ValidUpdate(u) ==
    /\ IsSome(u.email) => ValidEmail(Unwrap(u.email))
    /\ IsSome(u.username) => ValidUsername(Unwrap(u.username))
ValidLogin(c) == ValidEmail(c.email)

CreateInputs(E, U, P) ==
    [email : E, username : U, password : P, full_name : Opt(FullNames)]
Patches(E, U) ==
    [email : Opt(E), username : Opt(U), full_name : Opt(FullNames),
     is_active : Opt(BOOLEAN)]

(***************************************************************************)
(* utils/hash.rs.  A digest is the bcrypt tag and the hashed password;     *)
(* any other shape is a malformed digest.                                  *)
(***************************************************************************)
EmptyHash(password) == <<>>

hash_password(password) == <<"2b", password>>

\* bcrypt::verify: a digest it cannot parse is an error, returned through `?`
verify_password(password, hash) ==
    IF Len(hash) # 2 \/ hash[1] # "2b" THEN [ok |-> FALSE, valid |-> FALSE]
    ELSE [ok |-> TRUE, valid |-> hash[2] = password]

(***************************************************************************)
(* errors.rs: AppError::status_code                                        *)
(***************************************************************************)
StatusCode(err) ==
    CASE err = "InternalServerError" -> 500
      [] err = "BadRequest" -> 400
      [] err = "Unauthorized" -> 401
      [] err = "Forbidden" -> 403
      [] err = "NotFound" -> 404
      [] err = "Conflict" -> 409
      [] err = "UnprocessableEntity" -> 422
      [] err = "DatabaseError" -> 500
      [] err = "ValidationError" -> 400
      [] err = "JwtError" -> 401
      [] err = "HashError" -> 500

(***************************************************************************)
(* The users table.  The migrations are not part of the sources: column    *)
(* defaults and the unique constraints on email and username follow the    *)
(* specification of the store.                                             *)
(***************************************************************************)
DefaultIsActive == TRUE
DefaultIsVerified == FALSE

UniqueViolation(rows, row) ==
    \E r \in rows : r.id # row.id /\ (r.email = row.email \/ r.username = row.username)

SvcOk(rows, user) == [err |-> "", rows |-> rows, user |-> Some(user)]
SvcDone(rows) == [err |-> "", rows |-> rows, user |-> None]
SvcErr(rows, e) == [err |-> e, rows |-> rows, user |-> None]

CheckEmailAndUsername(rows, in) ==
    \E r \in rows : r.email = in.email /\ r.username = in.username

\* UserService::create_user, the existence pre-check (SELECT ... OR ...)
CreateUserCheck(rows, in) ==
    \E r \in rows : r.email = in.email \/ r.username = in.username

\* UserService::create_user, hashing and the INSERT ... RETURNING *
CreateUserInsert(rows, id, in, t) ==
    LET password_hash == hash_password(in.password)
        row == [id |-> id, email |-> in.email, username |-> in.username,
                password_hash |-> password_hash, full_name |-> in.full_name,
                is_active |-> DefaultIsActive, is_verified |-> DefaultIsVerified,
                created_at |-> t, updated_at |-> t]
    IN  IF UniqueViolation(rows, row) THEN SvcErr(rows, "DatabaseError")
        ELSE SvcOk(rows \cup {row}, row)

\* UserService::create_user with no other request between its two statements
create_user(rows, id, in, t) ==
    IF CreateUserCheck(rows, in) THEN SvcErr(rows, "Conflict")
    ELSE CreateUserInsert(rows, id, in, t)

\* UserService::get_user_by_id
get_user_by_id(rows, user_id) ==
    IF \E r \in rows : r.id = user_id
    THEN SvcOk(rows, CHOOSE r \in rows : r.id = user_id)
    ELSE SvcErr(rows, "NotFound")

\* UserService::get_user_by_email
get_user_by_email(rows, email) ==
    IF \E r \in rows : r.email = email
    THEN SvcOk(rows, CHOOSE r \in rows : r.email = email)
    ELSE SvcErr(rows, "NotFound")

\* One SET clause applied to a row, the value taken from its placeholder
SetColumn(row, col, val) ==
    CASE col = "email" -> [row EXCEPT !.email = val[2]]
      [] col = "username" -> [row EXCEPT !.username = val[2]]
      [] col = "full_name" -> [row EXCEPT !.full_name = Some(val[2])]
      [] col = "is_active" -> [row EXCEPT !.is_active = val[2]]

RECURSIVE ApplyClauses(_, _, _, _)
ApplyClauses(row, set, params, i) ==
    IF i > Len(set) THEN row
    ELSE ApplyClauses(SetColumn(row, set[i].col, params[set[i].ph]), set, params, i + 1)

\* The store executing the built UPDATE ... WHERE id = $n RETURNING *
ExecUpdate(rows, st, t) ==
    LET target == st.params[st.where][2]
        hit == {r \in rows : r.id = target}
    IN  IF hit = {} THEN SvcErr(rows, "NotFound")
        ELSE LET old == CHOOSE r \in hit : TRUE
                 new == [ApplyClauses(old, st.set, st.params, 1) EXCEPT !.updated_at = t]
             IN  IF UniqueViolation(rows, new) THEN SvcErr(rows, "DatabaseError")
                 ELSE SvcOk((rows \ {old}) \cup {new}, new)

\* UserService::update_user
update_user(rows, user_id, u, t) == ExecUpdate(rows, BuildUpdate(user_id, u), t)

DeleteAnyRow(rows, user_id) ==
    IF rows = {} THEN SvcErr(rows, "NotFound")
    ELSE SvcDone(rows \ {CHOOSE r \in rows : \A q \in rows : q.id <= r.id})

\* UserService::delete_user
delete_user(rows, user_id) ==
    LET hit == {r \in rows : r.id = user_id}
    IN  IF Cardinality(hit) = 0 THEN SvcErr(rows, "NotFound")
        ELSE SvcDone(rows \ hit)

IgnoreActiveFlag(rows, email, password) ==
    LET found == get_user_by_email(rows, email)
    IN  IF found.err # "" THEN found
        ELSE LET user == Unwrap(found.user)
                 v == verify_password(password, user.password_hash)
             IN  IF ~v.ok THEN SvcErr(rows, "HashError")
                 ELSE IF ~v.valid THEN SvcErr(rows, "Unauthorized")
                 ELSE SvcOk(rows, user)

\* UserService::verify_user_credentials
verify_user_credentials(rows, email, password) ==
    LET found == get_user_by_email(rows, email)
    IN  IF found.err # "" THEN found
        ELSE LET user == Unwrap(found.user)
                 v == verify_password(password, user.password_hash)
             IN  IF ~user.is_active THEN SvcErr(rows, "Forbidden")
                 ELSE IF ~v.ok THEN SvcErr(rows, "HashError")
                 ELSE IF ~v.valid THEN SvcErr(rows, "Unauthorized")
                 ELSE SvcOk(rows, user)

(***************************************************************************)
(* u32 arithmetic.  A u32 is its four base-256 digits, least significant   *)
(* first; a product of two u32 has eight.  An operation that leaves the    *)
(* u32 range panics in a build with overflow checks and wraps in a build   *)
(* without them.                                                           *)
(***************************************************************************)
U32(n) == <<n % 256, (n \div 256) % 256, (n \div 65536) % 256, (n \div 16777216) % 256>>
U32Zero == <<0, 0, 0, 0>>
U32Max == <<255, 255, 255, 255>>
\* values below 2^31 have a natural number the model can compute with
Small(a) == a[4] < 128
Value(a) == a[1] + 256 * a[2] + 65536 * a[3] + 16777216 * a[4]
\* u32 as i64
Widen(a) == a \o U32Zero

\* a - 1 in u32
SubOne(a) ==
    LET nz == {i \in 1..4 : a[i] # 0}
    IN  IF nz = {} THEN [val |-> U32Max, overflow |-> TRUE]
        ELSE LET k == CHOOSE i \in nz : \A j \in nz : i <= j
             IN  [val |-> [i \in 1..4 |-> IF i < k THEN 255
                                          ELSE IF i = k THEN a[i] - 1 ELSE a[i]],
                  overflow |-> FALSE]

Term(a, b, i, k) == IF k + 1 - i \in 1..4 THEN a[i] * b[k + 1 - i] ELSE 0
ColSum(a, b, k) == Term(a, b, 1, k) + Term(a, b, 2, k) + Term(a, b, 3, k) + Term(a, b, 4, k)
RECURSIVE MulDigits(_, _, _, _)
MulDigits(a, b, k, carry) ==
    IF k > 8 THEN <<>>
    ELSE LET t == ColSum(a, b, k) + carry
         IN  <<t % 256>> \o MulDigits(a, b, k + 1, t \div 256)
\* the product of two u32, all eight digits
WideMul(a, b) == MulDigits(a, b, 1, 0)

\* a * b in u32
Mul(a, b) ==
    LET w == WideMul(a, b)
    IN  [val |-> SubSeq(w, 1, 4), overflow |-> SubSeq(w, 5, 8) # U32Zero]

\* the builds of the service: with and without overflow checks
Builds == {"checked", "wrapping"}

(***************************************************************************)
(* UserService::get_users over a table of `total` rows.                    *)
(***************************************************************************)
\* ((total as f64) / (limit as f64)).ceil() as u32: 0/0 is NaN and casts to 0,
\* x/0 is infinite and casts to u32::MAX
TotalPages(total, limit) ==
    IF limit = U32Zero THEN (IF total = 0 THEN U32Zero ELSE U32Max)
    ELSE IF total = 0 THEN U32Zero
    ELSE IF ~Small(limit) \/ Value(limit) >= total THEN U32(1)
    ELSE U32((total + Value(limit) - 1) \div Value(limit))

\* rows returned by LIMIT limit OFFSET offset
PageLength(total, limit, offset) ==
    IF ~Small(offset) \/ Value(offset) >= total THEN 0
    ELSE LET rest == total - Value(offset)
         IN  IF ~Small(limit) \/ Value(limit) >= rest THEN rest ELSE Value(limit)

Listed(page, limit, total, offset) ==
    [panicked |-> FALSE, computed |-> TRUE, status |-> 200, page |-> page,
     limit |-> limit, total |-> total, offset |-> Widen(offset),
     count |-> PageLength(total, limit, offset),
     total_pages |-> TotalPages(total, limit)]
\* the handler panicked: the connection is dropped without a response
Panicked(page, limit, total) ==
    [panicked |-> TRUE, computed |-> TRUE, status |-> 0, page |-> page,
     limit |-> limit, total |-> total, offset |-> Widen(U32Zero), count |-> 0,
     total_pages |-> U32Zero]
NotListed(status, page, limit) ==
    [panicked |-> FALSE, computed |-> FALSE, status |-> status, page |-> page,
     limit |-> limit, total |-> 0, offset |-> Widen(U32Zero), count |-> 0,
     total_pages |-> U32Zero]

get_users(total, page, limit, build) ==
    LET d == SubOne(page)
        m == Mul(d.val, limit)
    IN  IF build = "checked" /\ (d.overflow \/ m.overflow) THEN Panicked(page, limit, total)
        ELSE Listed(page, limit, total, m.val)

(***************************************************************************)
(* handlers/users.rs: the HTTP handlers, as functions of the table, the    *)
(* request and the clock reading.                                          *)
(***************************************************************************)
\* the two create_jwt_token calls of register, login and refresh_token
IssuePair(user, t) ==
    <<create_jwt_token(user.id, user.email, JwtSecret,
                       settings.access_token_expiry \div 3600, t),
      create_jwt_token(user.id, user.email, JwtSecret,
                       settings.refresh_token_expiry \div 3600, t)>>

Reply(op, status, err, user, tokens) ==
    [op |-> op, status |-> status, err |-> err, user |-> user, tokens |-> tokens,
     expires_in |-> 0]
\* LoginResponse of register, login and refresh_token
LoginResponse(op, status, user, t) ==
    [op |-> op, status |-> status, err |-> "", user |-> Some(user),
     tokens |-> IssuePair(user, t), expires_in |-> settings.access_token_expiry]
Failure(op, err) == Reply(op, StatusCode(err), err, None, <<>>)
\* actix_web::error::ErrorUnauthorized returned by the middleware
GateFailure(op) == Reply(op, 401, "ErrorUnauthorized", None, <<>>)
NoResp == Reply("none", 0, "", None, <<>>)

Handled(rows, reply) == [rows |-> rows, reply |-> reply]

handle_register(rows, id, in, t) ==
    IF ~ValidCreate(in) THEN Handled(rows, Failure("register", "ValidationError"))
    ELSE LET r == create_user(rows, id, in, t)
         IN  IF r.err # "" THEN Handled(rows, Failure("register", r.err))
             ELSE Handled(r.rows, LoginResponse("register", 201, Unwrap(r.user), t))

handle_login(rows, c, t) ==
    IF ~ValidLogin(c) THEN Handled(rows, Failure("login", "ValidationError"))
    ELSE LET r == verify_user_credentials(rows, c.email, c.password)
         IN  IF r.err # "" THEN Handled(rows, Failure("login", r.err))
             ELSE Handled(rows, LoginResponse("login", 200, Unwrap(r.user), t))

handle_refresh_token(rows, refresh_token, t) ==
    LET d == decode_jwt_token(refresh_token, JwtSecret, t)
    IN  IF ~d.ok THEN Handled(rows, Failure("refresh", d.err))
        ELSE LET r == get_user_by_id(rows, d.claims.sub)
             IN  IF r.err # "" THEN Handled(rows, Failure("refresh", r.err))
                 ELSE Handled(rows, LoginResponse("refresh", 200, Unwrap(r.user), t))

DefaultPage == 1
DefaultLimit == 20

\* get_users: query is the PaginationParams of the request
handle_get_users(rows, query, build) ==
    LET page == IF IsSome(query.page) THEN Unwrap(query.page) ELSE U32(DefaultPage)
        limit == IF IsSome(query.limit) THEN Unwrap(query.limit) ELSE U32(DefaultLimit)
    IN  get_users(Cardinality(rows), page, limit, build)

handle_get_user(rows, id) ==
    LET r == get_user_by_id(rows, id)
    IN  IF r.err # "" THEN Handled(rows, Failure("get", r.err))
        ELSE Handled(rows, Reply("get", 200, "", r.user, <<>>))

handle_create_user(rows, id, in, t) ==
    IF ~ValidCreate(in) THEN Handled(rows, Failure("create", "ValidationError"))
    ELSE LET r == create_user(rows, id, in, t)
         IN  IF r.err # "" THEN Handled(rows, Failure("create", r.err))
             ELSE Handled(r.rows, Reply("create", 201, "", r.user, <<>>))

AllowAnyone(claims, user_id) == TRUE

\* the self-only check of update_user and delete_user: claims.sub != user_id
AuthorizeSelf(claims, user_id) == claims.sub = user_id

\* ext is the Claims the middleware put in the request extensions, if any
handle_update_user(rows, ext, user_id, u, t) ==
    IF ~IsSome(ext) THEN Handled(rows, Failure("update", "Unauthorized"))
    ELSE IF ~AuthorizeSelf(Unwrap(ext), user_id) THEN Handled(rows, Failure("update", "Forbidden"))
    ELSE IF ~ValidUpdate(u) THEN Handled(rows, Failure("update", "ValidationError"))
    ELSE LET r == update_user(rows, user_id, u, t)
         IN  IF r.err # "" THEN Handled(rows, Failure("update", r.err))
             ELSE Handled(r.rows, Reply("update", 200, "", r.user, <<>>))

handle_delete_user(rows, ext, user_id) ==
    IF ~IsSome(ext) THEN Handled(rows, Failure("delete", "Unauthorized"))
    ELSE IF ~AuthorizeSelf(Unwrap(ext), user_id) THEN Handled(rows, Failure("delete", "Forbidden"))
    ELSE LET r == delete_user(rows, user_id)
         IN  IF r.err # "" THEN Handled(rows, Failure("delete", r.err))
             ELSE Handled(r.rows, Reply("delete", 204, "", None, <<>>))

(***************************************************************************)
(* Requests clients can send: headers and token strings made of the        *)
(* tokens they hold, as issued or tampered with.                           *)
(***************************************************************************)
Grant(tok, id, email, secret, hours, iat) ==
    [tok |-> tok, id |-> id, email |-> email, secret |-> secret,
     hours |-> hours, iat |-> iat]
PairGrants(user, pair, t) ==
    {Grant(pair[1], user.id, user.email, JwtSecret, settings.access_token_expiry \div 3600, t),
     Grant(pair[2], user.id, user.email, JwtSecret, settings.refresh_token_expiry \div 3600, t)}
\* the client keeps one token at a time, or none
Keep(grants) == {{}} \cup {{g} : g \in held \cup grants}

\* the payload rewritten to another subject, or to a later expiry; the signature kept
OtherSubject(tok) == [tok EXCEPT !.payload[1] = (tok.payload[1] % MaxUsers) + 1]
LaterExpiry(tok) == [tok EXCEPT !.payload[3] = tok.payload[3] + SecondsPerHour]

HeldTokens == {g.tok : g \in held}
Presentable == HeldTokens \cup {OtherSubject(k) : k \in HeldTokens}
                          \cup {LaterExpiry(k) : k \in HeldTokens}
TokenStrs == {TokenStr(<<>>, None)} \cup {JustToken(k) : k \in Presentable}
                                    \cup {TokenStr(<<120>>, Some(k)) : k \in HeldTokens}
\* "", "Bearer ", "bearer ", "Basic ", "Bearer x", "Bearer" and a non-ASCII byte
HeaderTexts == {<<>>, Bearer, LowerBearer, Basic, Bearer \o <<120>>, Bearer \o <<233>>}
AllHeaders == {NoHeader} \cup {Header(Bearer, Some(k)) : k \in Presentable}
                         \cup {Header(x, jwt) : x \in HeaderTexts,
                                                jwt \in {None} \cup {Some(k) : k \in HeldTokens}}
\* the headers the directory is driven with: none, a held token under "Bearer ",
\* and a held token rewritten to another subject
Headers == {NoHeader} \cup {Header(Bearer, Some(k)) : k \in HeldTokens}
                      \cup {Header(Bearer, Some(OtherSubject(k))) : k \in HeldTokens}

(***************************************************************************)
(* State shared by the specifications.  resp holds the last reply and a    *)
(* digest of the request it answers: the subject the gate bound, the id    *)
(* in the path, the e-mail and password of the credentials, the            *)
(* CreateUser and the UpdateUser body.                                     *)
(***************************************************************************)
Workers == 1..MaxWorkers
NoInput == [email |-> 0, username |-> 0, password |-> 0, full_name |-> None]
Idle == [pc |-> "idle", in |-> NoInput]
NoDec == [called |-> FALSE, token |-> TokenStr(<<>>, None), secret |-> 0, at |-> 0,
          res |-> Err("")]
NoGate == [transport |-> "none", header |-> NoHeader, at |-> 0, out |-> Reject("")]
NoStmt == [set |-> <<>>, where |-> 0, params |-> <<>>]
NoRequest == [sub |-> None, target |-> None, email |-> None, password |-> None,
              in |-> NoInput, patch |-> NoPatch]
Answer(reply, req) ==
    [reply |-> reply, sub |-> req.sub, target |-> req.target, email |-> req.email,
     password |-> req.password, in |-> req.in, patch |-> req.patch]
NoListing == [called |-> FALSE, forwarded |-> FALSE, out |-> NotListed(0, U32Zero, U32Zero)]
NoHashing == [called |-> FALSE, password |-> 0, hash |-> <<>>,
              res |-> [ok |-> FALSE, valid |-> FALSE]]

Init ==
    /\ users = {}
    /\ nextId = 1
    /\ now = 0
    /\ held = {}
    /\ creates = [w \in Workers |-> Idle]
    /\ resp = Answer(NoResp, NoRequest)
    /\ dec = NoDec
    /\ gate = NoGate
    /\ patchIn = [user_id |-> 1, patch |-> NoPatch]
    /\ stmt = NoStmt
    /\ settings = DefaultSettings
    /\ listing = NoListing
    /\ hashing = NoHashing

ReplyGrants(reply, t) ==
    IF reply.tokens = <<>> THEN {}
    ELSE PairGrants(Unwrap(reply.user), reply.tokens, t)

\* the effect of a handled request on the table, the identifiers and the client
Complete(h, req) ==
    /\ h.rows \subseteq users \/ nextId <= MaxUsers
    /\ users' = h.rows
    /\ nextId' = IF h.rows \subseteq users THEN nextId ELSE nextId + 1
    /\ resp' = Answer(h.reply, req)
    /\ held' \in IF h.reply.tokens = <<>> THEN {held} ELSE Keep(ReplyGrants(h.reply, now))
    /\ UNCHANGED <<now, creates, dec, gate, patchIn, stmt, settings, listing, hashing>>

(***************************************************************************)
(* The directory over HTTP: one action per route of main.rs.  The routes   *)
(* under /users sit behind AuthMiddleware.  Each request runs to           *)
(* completion; SpecRace interleaves the two statements of create_user.     *)
(***************************************************************************)
BoundSub(g) == IF IsSome(g.bound) THEN Some(Unwrap(g.bound).sub) ELSE None
Gated(g, id) == [NoRequest EXCEPT !.sub = BoundSub(g), !.target = id]

Register(in) == Complete(handle_register(users, nextId, in, now), NoRequest)

Login(c) ==
    Complete(handle_login(users, c, now),
             [NoRequest EXCEPT !.email = Some(c.email), !.password = Some(c.password)])

RefreshToken(ts) == Complete(handle_refresh_token(users, ts, now), NoRequest)

GetUser(h, id) ==
    LET g == AuthMiddleware(h, now)
    IN  IF ~g.forwarded THEN Complete(Handled(users, GateFailure("get")), Gated(g, Some(id)))
        ELSE Complete(handle_get_user(users, id), Gated(g, Some(id)))

CreateUser(h, in) ==
    LET g == AuthMiddleware(h, now)
    IN  IF ~g.forwarded THEN Complete(Handled(users, GateFailure("create")), Gated(g, None))
        ELSE Complete(handle_create_user(users, nextId, in, now), Gated(g, None))

\* the body is read by the handler's extractor, after the gate let the request in
UpdateUser(h, id, u) ==
    LET g == AuthMiddleware(h, now)
    IN  IF ~g.forwarded THEN Complete(Handled(users, GateFailure("update")), Gated(g, Some(id)))
        ELSE Complete(handle_update_user(users, g.bound, id, u, now),
                      [Gated(g, Some(id)) EXCEPT !.patch = u])

DeleteUser(h, id) ==
    LET g == AuthMiddleware(h, now)
    IN  IF ~g.forwarded THEN Complete(Handled(users, GateFailure("delete")), Gated(g, Some(id)))
        ELSE Complete(handle_delete_user(users, g.bound, id), Gated(g, Some(id)))

\* registrations leave full_name out; patches set it
HttpCreateInputs ==
    {in \in CreateInputs({0} \cup Emails, Usernames, {1}) : in.full_name = None}
SetFields(u) ==
    {f \in {"email", "username", "full_name", "is_active"} : IsSome(u[f])}
\* over HTTP the directory is driven with patches of at most one field
HttpPatches == {u \in Patches({0} \cup Emails, Usernames) : Cardinality(SetFields(u)) <= 1}
Credentials == [email : {0} \cup Emails, password : Passwords]

Next ==
    \/ \E in \in HttpCreateInputs : Register(in)
    \/ \E c \in Credentials : Login(c)
    \/ \E ts \in TokenStrs : RefreshToken(ts)
    \/ \E h \in Headers, id \in Ids : GetUser(h, id)
    \/ \E h \in Headers, in \in HttpCreateInputs : CreateUser(h, in)
    \/ \E h \in Headers, id \in Ids, u \in HttpPatches : UpdateUser(h, id, u)
    \/ \E h \in Headers, id \in Ids : DeleteUser(h, id)

Spec == Init /\ [][Next]_vars

(***************************************************************************)
(* UserService called directly, one call at a time, under a ticking        *)
(* clock.                                                                  *)
(***************************************************************************)
Served(op, okStatus, r, req) ==
    /\ r.rows \subseteq users \/ nextId <= MaxUsers
    /\ users' = r.rows
    /\ nextId' = IF r.rows \subseteq users THEN nextId ELSE nextId + 1
    /\ resp' = Answer(IF r.err # "" THEN Failure(op, r.err)
                      ELSE Reply(op, okStatus, "", r.user, <<>>), req)
    /\ UNCHANGED <<now, held, creates, dec, gate, patchIn, stmt, settings, listing, hashing>>

ServiceCreate(in) ==
    Served("create_user", 201, create_user(users, nextId, in, now),
           [NoRequest EXCEPT !.in = in])

ServiceGet(id) ==
    Served("get_user_by_id", 200, get_user_by_id(users, id),
           [NoRequest EXCEPT !.target = Some(id)])

ServiceUpdate(id, u) ==
    Served("update_user", 200, update_user(users, id, u, now),
           [NoRequest EXCEPT !.target = Some(id), !.patch = u])

ServiceDelete(id) ==
    Served("delete_user", 204, delete_user(users, id),
           [NoRequest EXCEPT !.target = Some(id)])

Tick ==
    /\ now < MaxTime
    /\ now' = now + 1
    /\ UNCHANGED <<users, nextId, held, creates, resp, dec, gate, patchIn, stmt, settings, listing, hashing>>

\* records are created with matching email and username and no full_name;
\* patches then change each field on its own
ServiceInputs ==
    {in \in CreateInputs(Emails, Usernames, {1}) :
        in.full_name = None /\ in.username = in.email}
\* every combination of set and unset fields; is_active is set to either value
ServicePatches == Patches({2}, {2})

NextService ==
    \/ \E in \in ServiceInputs : ServiceCreate(in)
    \/ \E id \in Ids : ServiceGet(id)
    \/ \E id \in Ids, u \in ServicePatches : ServiceUpdate(id, u)
    \/ \E id \in Ids : ServiceDelete(id)
    \/ Tick

SpecService == Init /\ [][NextService]_vars

(***************************************************************************)
(* UserService under concurrent requests: create_user is a SELECT and,     *)
(* later, an INSERT; any other statement may run in between.               *)
(***************************************************************************)
BeginCreate(w, in) ==
    /\ creates[w].pc = "idle"
    /\ IF CreateUserCheck(users, in)
       THEN /\ resp' = Answer(Failure("create_user", "Conflict"), [NoRequest EXCEPT !.in = in])
            /\ UNCHANGED creates
       ELSE /\ creates' = [creates EXCEPT ![w] = [pc |-> "insert", in |-> in]]
            /\ UNCHANGED resp
    /\ UNCHANGED <<users, nextId, now, held, dec, gate, patchIn, stmt, settings, listing, hashing>>

FinishCreate(w) ==
    /\ creates[w].pc = "insert"
    /\ LET r == CreateUserInsert(users, nextId, creates[w].in, now)
       IN  /\ r.rows \subseteq users \/ nextId <= MaxUsers
           /\ users' = r.rows
           /\ nextId' = IF r.rows \subseteq users THEN nextId ELSE nextId + 1
           /\ resp' = Answer(IF r.err # "" THEN Failure("create_user", r.err)
                             ELSE Reply("create_user", 201, "", r.user, <<>>),
                             [NoRequest EXCEPT !.in = creates[w].in])
    /\ creates' = [creates EXCEPT ![w] = Idle]
    /\ UNCHANGED <<now, held, dec, gate, patchIn, stmt, settings, listing, hashing>>

\* the race is over e-mails and usernames: the requests set nothing else
RaceInputs == {in \in CreateInputs(Emails, Usernames, {1}) : in.full_name = None}
RacePatches == {u \in Patches(Emails, Usernames) : u.full_name = None /\ u.is_active = None}

NextRace ==
    \/ \E w \in Workers, in \in RaceInputs : BeginCreate(w, in)
    \/ \E w \in Workers : FinishCreate(w)
    \/ \E id \in Ids, u \in RacePatches : ServiceUpdate(id, u)
    \/ \E id \in Ids : ServiceDelete(id)

SpecRace == Init /\ [][NextRace]_vars

(***************************************************************************)
(* The token codec and the two gates on their own, under a clock that      *)
(* jumps to the instants around an expiry: h hours, plus the leeway or     *)
(* not, plus up to MaxLate seconds.                                        *)
(***************************************************************************)
Instants ==
    {h * SecondsPerHour + m * Leeway + l : h \in 0..MaxHours, m \in 0..1, l \in 0..MaxLate}

Issue(id, email, secret, hours) ==
    /\ held' = {Grant(create_jwt_token(id, email, secret, hours, now),
                      id, email, secret, hours, now)}
    /\ dec' = NoDec
    /\ gate' = NoGate
    /\ UNCHANGED <<users, nextId, now, creates, resp, patchIn, stmt, settings, listing, hashing>>

Decode(ts, secret) ==
    /\ dec' = [called |-> TRUE, token |-> ts, secret |-> secret, at |-> now,
               res |-> decode_jwt_token(ts, secret, now)]
    /\ gate' = NoGate
    /\ UNCHANGED <<users, nextId, now, held, creates, resp, patchIn, stmt, settings, listing, hashing>>

ActixCall(h) ==
    /\ gate' = [transport |-> "actix", header |-> h, at |-> now,
                out |-> AuthMiddleware(h, now)]
    /\ dec' = NoDec
    /\ UNCHANGED <<users, nextId, now, held, creates, resp, patchIn, stmt, settings, listing, hashing>>

TonicCall(h) ==
    /\ gate' = [transport |-> "tonic", header |-> h, at |-> now,
                out |-> auth_interceptor(h)]
    /\ dec' = NoDec
    /\ UNCHANGED <<users, nextId, now, held, creates, resp, patchIn, stmt, settings, listing, hashing>>

Advance(t) ==
    /\ t > now
    /\ now' = t
    /\ dec' = NoDec
    /\ gate' = NoGate
    /\ UNCHANGED <<users, nextId, held, creates, resp, patchIn, stmt, settings, listing, hashing>>

NextAuth ==
    \/ \E id \in Ids, email \in Emails, secret \in Secrets, hours \in 1..MaxHours :
           Issue(id, email, secret, hours)
    \/ \E ts \in TokenStrs, secret \in Secrets : Decode(ts, secret)
    \/ \E h \in AllHeaders : ActixCall(h)
    \/ \E h \in AllHeaders : TonicCall(h)
    \/ \E t \in Instants : Advance(t)

SpecAuth == Init /\ [][NextAuth]_vars

(***************************************************************************)
(* The UPDATE builder on its own: every target and every UpdateUser.       *)
(***************************************************************************)
PatchInputs == [user_id : Ids, patch : Patches(Emails, Usernames)]

InitPatch ==
    /\ patchIn \in PatchInputs
    /\ stmt = NoStmt
    /\ users = {}
    /\ nextId = 1
    /\ now = 0
    /\ held = {}
    /\ creates = [w \in Workers |-> Idle]
    /\ resp = Answer(NoResp, NoRequest)
    /\ dec = NoDec
    /\ gate = NoGate
    /\ settings = DefaultSettings
    /\ listing = NoListing
    /\ hashing = NoHashing

Build ==
    /\ stmt = NoStmt
    /\ stmt' = BuildUpdate(patchIn.user_id, patchIn.patch)
    /\ UNCHANGED <<users, nextId, now, held, creates, resp, dec, gate, patchIn, settings, listing, hashing>>

NextCall(p) ==
    /\ stmt # NoStmt
    /\ patchIn' = p
    /\ stmt' = NoStmt
    /\ UNCHANGED <<users, nextId, now, held, creates, resp, dec, gate, settings, listing, hashing>>

NextPatch ==
    \/ Build
    \/ \E p \in PatchInputs : NextCall(p)

SpecPatch == InitPatch /\ [][NextPatch]_vars

(***************************************************************************)
(* Listing over HTTP: GET /users behind AuthMiddleware, on a table filled  *)
(* by registrations.                                                       *)
(***************************************************************************)
\* 2^31 + 1
HalfRangePlusOne == <<1, 0, 0, 128>>
Pages == {U32(n) : n \in 0..MaxPage} \cup {HalfRangePlusOne, U32Max}
Limits == {U32(n) : n \in 0..MaxLimit} \cup {U32Max}
PaginationParams == [page : Opt(Pages), limit : Opt(Limits)]

ListUsers(h, query, build) ==
    /\ LET g == AuthMiddleware(h, now)
       IN  listing' = [called |-> TRUE, forwarded |-> g.forwarded,
                       out |-> IF g.forwarded THEN handle_get_users(users, query, build)
                               ELSE NotListed(g.status, U32Zero, U32Zero)]
    /\ UNCHANGED <<users, nextId, now, held, creates, resp, dec, gate, patchIn, stmt, settings, hashing>>

NextList ==
    \/ \E in \in HttpCreateInputs : Register(in)
    \/ \E h \in Headers, query \in PaginationParams, build \in Builds :
           ListUsers(h, query, build)

SpecList == Init /\ [][NextList]_vars

(***************************************************************************)
(* Credential verification on its own, and login against a store that      *)
(* already holds one record when the service starts: the record's          *)
(* password_hash column is any text, a bcrypt digest or not.               *)
(***************************************************************************)
\* "", a bare prefix, a digest of another scheme, a digest with trailing text
Digests ==
    {hash_password(p) : p \in Passwords}
        \cup {<<>>, <<"2b">>, <<"md5", 1>>, <<"2b", 1, 1>>}

StoredRow(digest, active) ==
    [id |-> 1, email |-> 1, username |-> 1, password_hash |-> digest,
     full_name |-> None, is_active |-> active, is_verified |-> DefaultIsVerified,
     created_at |-> 0, updated_at |-> 0]

InitHash ==
    /\ \/ users = {} /\ nextId = 1
       \/ \E d \in Digests, a \in BOOLEAN : users = {StoredRow(d, a)} /\ nextId = 2
    /\ now = 0
    /\ held = {}
    /\ creates = [w \in Workers |-> Idle]
    /\ resp = Answer(NoResp, NoRequest)
    /\ dec = NoDec
    /\ gate = NoGate
    /\ patchIn = [user_id |-> 1, patch |-> NoPatch]
    /\ stmt = NoStmt
    /\ settings = DefaultSettings
    /\ listing = NoListing
    /\ hashing = NoHashing

VerifyPassword(password, hash) ==
    /\ hashing' = [called |-> TRUE, password |-> password, hash |-> hash,
                   res |-> verify_password(password, hash)]
    /\ UNCHANGED <<users, nextId, now, held, creates, resp, dec, gate, patchIn, stmt, settings, listing>>

NextHash ==
    \/ \E password \in {0} \cup Passwords, hash \in Digests : VerifyPassword(password, hash)
    \/ \E c \in Credentials : Login(c)

SpecHash == InitHash /\ [][NextHash]_vars

(***************************************************************************)
(* Token issuance under other settings than the defaults: the service      *)
(* starts with jwt.access_token_expiry and jwt.refresh_token_expiry set    *)
(* to any positive number of seconds, then serves /auth.                   *)
(***************************************************************************)
ExpirySettings ==
    [access_token_expiry : {1, 1800, 3600, 5400},
     refresh_token_expiry : {3599, 86400, 90000}]

InitConfig ==
    /\ settings \in ExpirySettings
    /\ users = {}
    /\ nextId = 1
    /\ now = 0
    /\ held = {}
    /\ creates = [w \in Workers |-> Idle]
    /\ resp = Answer(NoResp, NoRequest)
    /\ dec = NoDec
    /\ gate = NoGate
    /\ patchIn = [user_id |-> 1, patch |-> NoPatch]
    /\ stmt = NoStmt
    /\ listing = NoListing
    /\ hashing = NoHashing

NextConfig ==
    \/ \E in \in HttpCreateInputs : Register(in)
    \/ \E c \in Credentials : Login(c)
    \/ \E ts \in TokenStrs : RefreshToken(ts)

SpecConfig == InitConfig /\ [][NextConfig]_vars

(***************************************************************************)
(* Properties                                                              *)
(***************************************************************************)
\* this step answers a directory request
Answering == resp' # resp \/ users' # users
RowOf(rows, id) == CHOOSE r \in rows : r.id = id
Exists(rows, id) == \E r \in rows : r.id = id

\* C1: over HTTP, an update or delete whose authenticated subject differs from the
\* target id is answered Forbidden and leaves the table as it was; and a step that
\* changes or removes a row is an update or delete whose subject is that row's id.
C1_SelfOnlyMutation ==
    [][ /\ ( /\ Answering
             /\ resp'.reply.op \in {"update", "delete"}
             /\ IsSome(resp'.sub)
             /\ resp'.sub # resp'.target )
           => (resp'.reply.status = 403 /\ users' = users)
        /\ \A r \in users :
             r \notin users' =>
                /\ resp'.reply.op \in {"update", "delete"}
                /\ resp'.sub = Some(r.id)
                /\ resp'.target = Some(r.id)
      ]_vars

\* C1 witness: identity U1 was refused an update of the existing record U2
C1_Witness ==
    /\ resp.reply.op = "update"
    /\ resp.reply.status = 403
    /\ IsSome(resp.sub)
    /\ Exists(users, Unwrap(resp.target))

\* the header carries a token the codec accepts, under the "Bearer " scheme
ValidBearer(h, t) ==
    /\ h.present
    /\ StartsWith(h.text, Bearer)
    /\ Validate(StripPrefix(h), JwtSecret, t).ok

\* C2: on both transports the gate forwards a request only if its authorization
\* header is present, begins with "Bearer " and carries a token that validates;
\* every other request is rejected as Unauthenticated.
C2_GateRejectsInvalid ==
    gate.transport # "none" =>
        /\ gate.out.forwarded => ValidBearer(gate.header, gate.at)
        /\ ~gate.out.forwarded => gate.out.status = 401

\* C3: a login with a well-formed e-mail that matches no record, and a login that
\* fails on an existing active record, are both answered Unauthorized (401).
C3_NoUserEnumeration ==
    ( /\ resp.reply.op = "login"
      /\ resp.reply.tokens = <<>>
      /\ IsSome(resp.email)
      /\ ValidEmail(Unwrap(resp.email))
      /\ \A r \in users : r.email = Unwrap(resp.email) => r.is_active )
    => (resp.reply.status = 401 /\ resp.reply.err = "Unauthorized")

Taken(rows, in) == \E r \in rows : r.email = in.email \/ r.username = in.username

\* C5: a create_user whose pre-check sees the e-mail or the username taken answers
\* Conflict and inserts nothing, and only a create_user that saw neither taken goes
\* on to its INSERT; an INSERT reaching a table where neither is taken adds exactly
\* one row with the given e-mail and username and returns it; otherwise it adds none.
C5_CreateConflict ==
    [][ /\ \A w \in Workers :
             (creates[w].pc = "idle" /\ creates'[w].pc = "insert")
                => ~Taken(users, creates'[w].in)
        /\ (creates' = creates /\ Answering /\ resp'.reply.op = "create_user")
             => /\ Taken(users, resp'.in)
                /\ resp'.reply.err = "Conflict"
                /\ resp'.reply.status = 409
                /\ users' = users
        /\ \A w \in Workers :
             (creates[w].pc = "insert" /\ creates'[w].pc = "idle")
                => IF Taken(users, creates[w].in)
                   THEN users' = users
                   ELSE /\ resp'.reply.err = ""
                        /\ IsSome(resp'.reply.user)
                        /\ LET row == Unwrap(resp'.reply.user)
                           IN  /\ row \notin users
                               /\ users' = users \cup {row}
                               /\ row.email = creates[w].in.email
                               /\ row.username = creates[w].in.username
      ]_vars

\* C5 witness: a create against a table holding the e-mail or username got Conflict
C5_Witness ==
    /\ resp.reply.op = "create_user"
    /\ resp.reply.err = "Conflict"
    /\ Taken(users, resp.in)

FieldOrder == <<"email", "username", "full_name", "is_active">>
BoundValue(u, f) == IF f = "is_active" THEN Bool(Unwrap(u[f])) ELSE Text(Unwrap(u[f]))

\* C6: for every combination of set and unset fields the statement's placeholders
\* are 1..k+1 in order (k the number of set fields), one clause per set field in the
\* order email, username, full_name, is_active, the parameter list has k+1 entries,
\* parameter i is the value of the field of clause i, and the target id is bound
\* last, to the WHERE placeholder k+1.
C6_BuilderWellFormed ==
    stmt # NoStmt =>
        LET u == patchIn.patch
            fields == SelectSeq(FieldOrder, LAMBDA f : IsSome(u[f]))
            k == Len(fields)
        IN  /\ Len(stmt.set) = k
            /\ Len(stmt.params) = k + 1
            /\ \A i \in 1..k :
                 /\ stmt.set[i].ph = i
                 /\ stmt.set[i].col = fields[i]
                 /\ stmt.params[i] = BoundValue(u, fields[i])
            /\ stmt.where = k + 1
            /\ stmt.params[k + 1] = Uuid(patchIn.user_id)

\* C6 witness: the statement built for a patch with all four fields set
C6_Witness ==
    /\ stmt # NoStmt
    /\ \A f \in {"email", "username", "full_name", "is_active"} : IsSome(patchIn.patch[f])

Patched(old, u, t) ==
    [id |-> old.id,
     email |-> IF IsSome(u.email) THEN Unwrap(u.email) ELSE old.email,
     username |-> IF IsSome(u.username) THEN Unwrap(u.username) ELSE old.username,
     password_hash |-> old.password_hash,
     full_name |-> IF IsSome(u.full_name) THEN u.full_name ELSE old.full_name,
     is_active |-> IF IsSome(u.is_active) THEN Unwrap(u.is_active) ELSE old.is_active,
     is_verified |-> old.is_verified,
     created_at |-> old.created_at,
     updated_at |-> t]

\* C7: a successful update_user replaces the target row by the same row with the
\* set fields of the patch and updated_at = now, and nothing else changes; a patch
\* with every field unset on an existing record succeeds.
C7_PartialUpdateFrame ==
    [][ (Answering /\ resp'.reply.op = "update_user") =>
          /\ resp'.reply.err = "" =>
                /\ Exists(users, Unwrap(resp'.target))
                /\ LET old == RowOf(users, Unwrap(resp'.target))
                       new == Patched(old, resp'.patch, now)
                   IN  /\ users' = (users \ {old}) \cup {new}
                       /\ resp'.reply.user = Some(new)
          /\ (resp'.patch = NoPatch /\ Exists(users, Unwrap(resp'.target)))
                => resp'.reply.err = ""
      ]_vars

\* C7 witness: an all-unset patch succeeded and moved only updated_at
C7_Witness ==
    /\ resp.reply.op = "update_user"
    /\ resp.reply.err = ""
    /\ resp.patch = NoPatch
    /\ \E r \in users : Some(r.id) = resp.target /\ r.updated_at > r.created_at

\* C8: a token decoded with the secret it was issued under, before its expiry (thus
\* also when freshly issued), yields the issued subject id and e-mail, the issue
\* time, and exp = iat + ttl * 3600.
C8_TokenRoundTrip ==
    \A g \in held :
        ( /\ dec.called
          /\ dec.token = JustToken(g.tok)
          /\ dec.secret = g.secret
          /\ dec.at < g.iat + g.hours * 3600 )
        => /\ dec.res.ok
           /\ dec.res.claims = [sub |-> g.id, email |-> g.email,
                                exp |-> g.iat + g.hours * 3600, iat |-> g.iat]

\* C8 witness: a freshly issued token was decoded with its secret
C8_Witness ==
    \E g \in held :
        /\ dec.called
        /\ dec.token = JustToken(g.tok)
        /\ dec.secret = g.secret
        /\ dec.at = g.iat
        /\ dec.res.ok

\* C9: a correctly signed token is accepted exactly while now < exp.
C9_ExpiryExclusive ==
    \A g \in held :
        ( /\ dec.called
          /\ dec.token = JustToken(g.tok)
          /\ dec.secret = g.secret )
        => (dec.res.ok <=> dec.at < g.iat + g.hours * 3600)

\* C10: delete_user succeeds exactly when a row has the id, and then removes that
\* row only; otherwise it answers NotFound and changes nothing.  An id that was
\* handed out and has no row never gets a row again, and get, update and delete of
\* an id without a row answer NotFound.
C10_HardDelete ==
    [][ /\ (Answering /\ resp'.reply.op = "delete_user") =>
             LET hit == {r \in users : Some(r.id) = resp'.target}
             IN  IF hit # {}
                 THEN /\ resp'.reply.err = ""
                      /\ Cardinality(hit) = 1
                      /\ users' = users \ hit
                 ELSE /\ resp'.reply.err = "NotFound"
                      /\ users' = users
        /\ \A id \in 1..(nextId - 1) : ~Exists(users, id) => ~Exists(users', id)
        /\ ( /\ Answering
             /\ resp'.reply.op \in {"get_user_by_id", "update_user", "delete_user"}
             /\ ~Exists(users, Unwrap(resp'.target)) )
           => (resp'.reply.err = "NotFound" /\ users' = users)
      ]_vars

\* C10 witness: a get of an id that was created and then deleted answered NotFound
C10_Witness ==
    /\ resp.reply.op = "get_user_by_id"
    /\ resp.reply.err = "NotFound"
    /\ Unwrap(resp.target) < nextId
    /\ ~Exists(users, Unwrap(resp.target))

\* the records whose e-mail is the one of the last login request
LoginMatches == {r \in users : Some(r.email) = resp.email}

\* C11: a login whose e-mail matches a record with is_active = FALSE is answered
\* Forbidden (403) without tokens; a login that returns a token pair matched a record
\* that is active and whose stored hash verifies the presented password, and the
\* tokens are that record's.
C11_LoginDeactivated ==
    resp.reply.op = "login" =>
        /\ (\E r \in LoginMatches : ~r.is_active) =>
              /\ resp.reply.status = 403
              /\ resp.reply.err = "Forbidden"
              /\ resp.reply.tokens = <<>>
        /\ resp.reply.tokens # <<>> =>
              \E r \in LoginMatches :
                 /\ r.is_active
                 /\ verify_password(Unwrap(resp.password), r.password_hash)
                       = [ok |-> TRUE, valid |-> TRUE]
                 /\ resp.reply.user = Some(r)
                 /\ \A i \in 1..2 : resp.reply.tokens[i].payload[1] = r.id

\* C11 witness: a login with the right password on a deactivated record was refused
C11_Witness ==
    /\ resp.reply.op = "login"
    /\ resp.reply.status = 403
    /\ \E r \in LoginMatches :
         /\ ~r.is_active
         /\ verify_password(Unwrap(resp.password), r.password_hash).valid

\* the least n with n * limit >= total, for limit >= 1
CeilDiv(total, limit) ==
    IF total = 0 THEN 0
    ELSE IF ~Small(limit) \/ Value(limit) >= total THEN 1
    ELSE CHOOSE n \in 1..total :
            /\ n * Value(limit) >= total
            /\ (n - 1) * Value(limit) < total

\* C12: a list request with page >= 1 and limit >= 1 that reaches get_users is
\* answered, queries the store with offset = (page - 1) * limit as a product of
\* integers, and reports total_pages = ceil(total / limit).
C12_PaginationMapping ==
    ( /\ listing.called
      /\ listing.forwarded
      /\ listing.out.page # U32Zero
      /\ listing.out.limit # U32Zero )
    => /\ ~listing.out.panicked
       /\ listing.out.offset = WideMul(SubOne(listing.out.page).val, listing.out.limit)
       /\ listing.out.total_pages = U32(CeilDiv(listing.out.total, listing.out.limit))

\* C18: get_users computes its window only for page >= 1 and limit >= 1; a list
\* request with page = 0 or limit = 0 is rejected (4xx) before the arithmetic.
C18_WindowPrecondition ==
    (listing.called /\ listing.forwarded) =>
        /\ listing.out.computed =>
              (listing.out.page # U32Zero /\ listing.out.limit # U32Zero)
        /\ (listing.out.page = U32Zero \/ listing.out.limit = U32Zero) =>
              listing.out.status \in 400..499

\* the text is a bcrypt digest
WellFormed(hash) == \E p \in Passwords : hash = hash_password(p)

\* C13: verify_password answers true or false and never fails, false for a digest
\* that is not well formed; a login on an active record with such a digest is
\* answered Unauthorized (401), as a password mismatch is.
C13_VerifyTotal ==
    /\ hashing.called =>
          /\ hashing.res.ok
          /\ ~WellFormed(hashing.hash) => ~hashing.res.valid
    /\ ( /\ resp.reply.op = "login"
         /\ \E r \in LoginMatches : r.is_active /\ ~WellFormed(r.password_hash) )
       => (resp.reply.status = 401 /\ resp.reply.err = "Unauthorized")

\* what the gate of the last request answers when the header is absent
AbsentHeaderOutcome ==
    IF gate.transport = "actix" THEN AuthMiddleware(NoHeader, gate.at)
    ELSE auth_interceptor(NoHeader)

\* C14: whatever made a gate reject a request (no header, a wrong scheme, a token
\* that does not validate), the rejection has the status and the message of the
\* rejection of a request without header.
C14_GateFailureUniform ==
    (gate.transport # "none" /\ ~gate.out.forwarded) =>
        /\ gate.out.status = AbsentHeaderOutcome.status
        /\ gate.out.msg = AbsentHeaderOutcome.msg

\* C15: in every interleaving of create_user calls, a create that fails because the
\* e-mail or the username is taken is answered Conflict (409), never with the
\* store's error, and the table never holds two rows with that e-mail or username.
C15_RaceLoserConflict ==
    /\ (resp.reply.op = "create_user" /\ resp.reply.err # "") =>
          (resp.reply.err = "Conflict" /\ resp.reply.status = 409)
    /\ \A r1, r2 \in users :
          r1 # r2 => (r1.email # r2.email /\ r1.username # r2.username)

\* exp - iat of a token
Lifetime(tok) == tok.payload[3] - tok.payload[4]

\* C16: every token pair issued by register, login or refresh has exp > iat in both
\* tokens; the access token lives for the seconds the response reports as
\* expires_in, which is the configured access_token_expiry, and the refresh token
\* for the configured refresh_token_expiry.
C16_IssuedLifetime ==
    resp.reply.tokens # <<>> =>
        /\ \A i \in 1..2 : Lifetime(resp.reply.tokens[i]) > 0
        /\ resp.reply.expires_in = settings.access_token_expiry
        /\ Lifetime(resp.reply.tokens[1]) = resp.reply.expires_in
        /\ Lifetime(resp.reply.tokens[2]) = settings.refresh_token_expiry

\* the last request is an update of the caller's own, existing record whose patch
\* sets the e-mail or the username to the one of another record
CollidingUpdate ==
    /\ resp.reply.op = "update"
    /\ IsSome(resp.sub)
    /\ resp.sub = resp.target
    /\ Exists(users, Unwrap(resp.target))
    /\ \E r \in users :
         /\ r.id # Unwrap(resp.target)
         /\ resp.patch.email = Some(r.email) \/ resp.patch.username = Some(r.username)

\* C17: an authorized update that sets the e-mail or the username to a value held
\* by another record is answered Conflict (409).
C17_UpdateCollision ==
    CollidingUpdate => (resp.reply.err = "Conflict" /\ resp.reply.status = 409)

\* C19: a token pair is issued only for a subject whose record exists and is
\* active: no login and no refresh issues tokens for a deactivated or deleted one.
C19_NoTokensWhenInactive ==
    resp.reply.tokens # <<>> =>
        \E r \in users :
            /\ \A i \in 1..2 : resp.reply.tokens[i].payload[1] = r.id
            /\ r.is_active

====
